---- MODULE Spec2Model ----
(***************************************************************************)
(* ThinkFirst AI: the conversation-context classifier (analyzeContext) of  *)
(* functions/src/gemini/geminiService.ts, lines 496-695, as a state        *)
(* machine over the turns of one conversation.                             *)
(*                                                                         *)
(* JavaScript strings are TLA+ strings; the string methods the code uses   *)
(* (toLowerCase, trim, includes, startsWith, split, join, length) are      *)
(* operators computed character by character.                              *)
(***************************************************************************)
EXTENDS Integers, Sequences, FiniteSets, TLC

VARIABLES
    message,              \* the message of the last analyzeContext call
    conversationHistory,  \* the history of the last call
    previousContext,      \* the previousContext of the last call
    context               \* the context the last call returned (the context
                          \* the caller holds and replays on the next turn)

\* the chat handler, per client session
VARIABLES
    requests,             \* the session's request: where the handler stands
                          \* in it (pc), the request, the handler's locals,
                          \* the calls it made and the responses it sent
    held,                 \* the conversationContext the client holds, as
                          \* JSON: the one of the last 200 response
    served                \* the guidance tiers the session's 200 responses
                          \* were prompted with since the topic's attemptCount
                          \* was last reset

\* a conversation, as the caller sees it
VARIABLES
    thread                \* the turns of the conversation since its topic was
                          \* opened: the message, the history and the context
                          \* returned of each, oldest first; empty when no
                          \* topic is open

classifierVars ==
    <<message, conversationHistory, previousContext, context, thread>>

chatVars == <<requests, held, served>>

vars == <<message, conversationHistory, previousContext, context,
          requests, held, served, thread>>

-----------------------------------------------------------------------------
(* Bounds *)

\* attemptCount is unbounded in the code; turns that would push it past this
\* are not taken.
MaxAttemptCount == 5

\* the largest attemptCount a client-supplied conversationContext carries
MaxClientAttemptCount == 4

\* the turns of a conversation that are followed once a topic is opened: the
\* turn that opens it and the turns after it
MaxThread == 4

-----------------------------------------------------------------------------
(* JavaScript values *)

Null == [null |-> TRUE]                \* null
Undefined == [undefined |-> TRUE]      \* undefined
Str(s) == [str |-> s]                  \* a string
Absent == [absent |-> TRUE]            \* previousContext not supplied

IsStr(v) == DOMAIN v = {"str"}

\* JavaScript truthiness of a currentTopic: null, undefined and "" are falsy
Truthy(v) == IsStr(v) /\ v.str # ""

-----------------------------------------------------------------------------
(* String methods *)

UpperCase == "ABCDEFGHIJKLMNOPQRSTUVWXYZ"
LowerCase == "abcdefghijklmnopqrstuvwxyz"
WhiteSpace == {" ", "\t", "\n"}

CharAt(s, i) == SubSeq(s, i, i)

lowerChar(c) ==
    IF \E i \in 1..Len(UpperCase) : CharAt(UpperCase, i) = c
    THEN CharAt(LowerCase, CHOOSE i \in 1..Len(UpperCase) : CharAt(UpperCase, i) = c)
    ELSE c

RECURSIVE toLowerCaseFrom(_, _)
toLowerCaseFrom(s, i) ==
    IF i > Len(s) THEN "" ELSE lowerChar(CharAt(s, i)) \o toLowerCaseFrom(s, i + 1)

\* String.prototype.toLowerCase
toLowerCase(s) == toLowerCaseFrom(s, 1)

\* String.prototype.trim: drops the white space at both ends
trim(s) ==
    LET keep == {i \in 1..Len(s) : CharAt(s, i) \notin WhiteSpace}
    IN  IF keep = {} THEN ""
        ELSE SubSeq(s, CHOOSE i \in keep : \A j \in keep : i <= j,
                       CHOOSE i \in keep : \A j \in keep : i >= j)

\* String.prototype.includes
includes(s, p) ==
    \E i \in 0..(Len(s) - Len(p)) : SubSeq(s, i + 1, i + Len(p)) = p

\* String.prototype.startsWith
startsWith(s, p) == Len(s) >= Len(p) /\ SubSeq(s, 1, Len(p)) = p

\* String.prototype.split(" "): the pieces between single spaces, empty
\* pieces included
RECURSIVE splitFrom(_, _, _)
splitFrom(s, i, cur) ==
    IF i > Len(s) THEN <<cur>>
    ELSE IF CharAt(s, i) = " " THEN <<cur>> \o splitFrom(s, i + 1, "")
    ELSE splitFrom(s, i + 1, cur \o CharAt(s, i))

split(s) == splitFrom(s, 1, "")

\* Array.prototype.join(" ")
RECURSIVE join(_)
join(ws) ==
    IF Len(ws) = 0 THEN ""
    ELSE IF Len(ws) = 1 THEN ws[1]
    ELSE ws[1] \o " " \o join(Tail(ws))

\* list.some(p => s.includes(p))
someIncluded(list, s) == \E i \in 1..Len(list) : includes(s, list[i])

\* Array.prototype.includes
listIncludes(list, w) == \E i \in 1..Len(list) : list[i] = w

\* Array.prototype.slice(0, n)
slice(list, n) == SubSeq(list, 1, IF Len(list) < n THEN Len(list) ELSE n)

Max(a, b) == IF a >= b THEN a ELSE b

-----------------------------------------------------------------------------
(* analyzeContext: the phrase lists *)

weatherPatterns ==
    <<"weather", "temperature", "how hot", "how cold", "climate", "forecast">>

newsPatterns ==
    <<"news", "today's news", "latest news", "current events", "headlines",
      "what's happening", "news update">>

solutionRequestPhrases ==
    <<"give me the answer", "give the answer", "just give me",
      "give me solution", "give the solution", "show me the answer",
      "show the solution", "what is the solution", "what's the solution",
      "tell me the solution", "just show me", "just tell me">>

attemptPhrases ==
    <<"i tried", "i think", "maybe", "is it", "would it be", "should i",
      "idk", "i don't know", "not sure", "i'm stuck", "can't figure">>

backToPreviousPhrases ==
    <<"back to", "return to", "again about", "still don't get">>

learningKeywords ==
    <<"how do i", "how to", "how about", "what about", "explain", "solve",
      "algorithm for", "solution for", "implement">>

followUpKeywords ==
    <<"time complexity", "space complexity", "complexity", "why does this",
      "why is", "can you explain more", "what do you mean", "how does that",
      "give me a hint", "give hint", "another hint">>

chatKeywords ==
    <<"hello", "hi", "hey", "thanks", "thank you", "okay", "ok", "got it",
      "cool">>

stopWords ==
    <<"how", "to", "the", "a", "an", "what", "is", "explain", "can", "you",
      "i", "do", "about", "for">>

\* message.length > SubstantiveLength makes a reply a substantive response
SubstantiveLength == 10

\* extractTopic keeps words longer than MinWordLength ...
MinWordLength == 3

\* ... and the first TopicWords of them
TopicWords == 3

\* a direct solution request raises attemptCount to SolutionAttempt
SolutionAttempt == 3

-----------------------------------------------------------------------------
(* analyzeContext: the flags computed from the message *)

isWeatherRequest(msgLower) == someIncluded(weatherPatterns, msgLower)

isNewsRequest(msgLower) == someIncluded(newsPatterns, msgLower)

isAskingForSolution(msgLower) ==
    someIncluded(solutionRequestPhrases, msgLower)

isGenuineAttempt(msgLower) ==
    someIncluded(attemptPhrases, msgLower)

isReturningToPrevious(msgLower) ==
    someIncluded(backToPreviousPhrases, msgLower)

isNewLearningQuestion(msgLower) ==
    someIncluded(learningKeywords, msgLower)

isFollowUp(msgLower) == someIncluded(followUpKeywords, msgLower)

isGeneralChat(msgLower) ==
    \E i \in 1..Len(chatKeywords) :
        LET kw == chatKeywords[i]
        IN  \/ msgLower = kw
            \/ startsWith(msgLower, kw \o " ")
            \/ startsWith(msgLower, kw \o "!")

\* words.filter(w => !stopWords.includes(w) && w.length > 3)
RECURSIVE meaningfulWords(_)
meaningfulWords(words) ==
    IF Len(words) = 0 THEN <<>>
    ELSE (IF ~listIncludes(stopWords, words[1]) /\ Len(words[1]) > MinWordLength
          THEN <<words[1]>> ELSE <<>>) \o meaningfulWords(Tail(words))

extractTopic(msg) ==
    join(slice(meaningfulWords(split(toLowerCase(msg))), TopicWords))

\* conversationHistory.filter(role === 'user').map(extractTopic(text))
\*                    .filter(topic.length > 0)
RECURSIVE previousTopics(_)
previousTopics(history) ==
    IF Len(history) = 0 THEN <<>>
    ELSE (IF history[1].role = "user" /\ Len(extractTopic(history[1].text)) > 0
          THEN <<extractTopic(history[1].text)>> ELSE <<>>)
         \o previousTopics(Tail(history))

\* previousTopics.find(topic => msgLower.includes(topic.split(' ')[0]))
\*   || previousTopics[previousTopics.length - 2]
relevantTopic(msgLower, topics) ==
    LET hits == {i \in 1..Len(topics) : includes(msgLower, split(topics[i])[1])}
    IN  IF hits # {} THEN Str(topics[CHOOSE i \in hits : \A j \in hits : i <= j])
        ELSE IF Len(topics) >= 2 THEN Str(topics[Len(topics) - 1])
        ELSE Undefined

-----------------------------------------------------------------------------
(* The inputs of the model *)

\* the messages a user sends
Messages ==
    { "what's the weather in Paris",
      "how do I implement merge sort",
      "I tried recursion but got stuck",
      "what about time complexity?",
      "just give me the answer",
      "hello",
      "hi",
      "hi there",
      "thanks!",
      " Hello ",
      "ok explain recursion",
      "hello, any news today",
      "explain the weather forecast",
      "explain it",
      "back to merge sort",
      "back to binary search",
      "how to get back to sorting",
      "time complexity",
      "give me a hint",
      "just give me a hint",
      "i think the complexity is n",
      "just tell me how to do it",
      "maybe",
      "use a queue",
      "two loops",
      "not sure, just show me",
      "what is the solution for this",
      "still don't get it",
      "this is hard",
      "why is it slow",
      "hi back to the latest news",
      "how do I implement\nmerge sort",
      "explain the latest sorting algorithm",
      "latest temperature in Paris" }

UserMsg(t) == [role |-> "user", text |-> t]
AssistantMsg(t) == [role |-> "assistant", text |-> t]

\* the histories a request carries, oldest message first
Histories ==
    { <<>>,
      <<AssistantMsg("what would you like to learn about sorting algorithms")>>,
      <<UserMsg("hi"), AssistantMsg("hello")>>,
      <<UserMsg("how do I implement merge sort"),
        AssistantMsg("what happens when you split the array")>>,
      <<UserMsg("explain binary search"),
        AssistantMsg("think about halving the range"),
        UserMsg("how do I implement merge sort"),
        AssistantMsg("what happens when you split the array")>>,
      <<UserMsg("explain binary search"),
        AssistantMsg("think about halving the range"),
        UserMsg("how do I implement merge sort"),
        AssistantMsg("what happens when you split the array"),
        UserMsg("how do I implement merge sort")>> }

-----------------------------------------------------------------------------
(* analyzeContext: the contexts the rules return *)

Context(topic, count, learning) ==
    [currentTopic |-> topic, attemptCount |-> count, isLearningMode |-> learning]

\* { currentTopic: null, attemptCount: 0, isLearningMode: false }
ZeroContext == Context(Null, 0, FALSE)

\* previousContext?.currentTopic
hasTopic(prev) == prev # Absent /\ Truthy(prev.currentTopic)

\* previousContext?.isLearningMode
inLearningMode(prev) == prev # Absent /\ prev.isLearningMode

\* the priority check's result: force chat mode for real-time requests
realTimeOverride == Context(Null, 0, FALSE)

\* generalChat with the topic reset to "" instead of null
generalChat_emptyTopic == Context(Str(""), 0, FALSE)

\* 1. General chat - reset everything
generalChat == Context(Null, 0, FALSE)

\* newLearningQuestion that forgets to enter learning mode
newLearningQuestion_chatMode(newTopic) == Context(Str(newTopic), 0, FALSE)

\* newLearningQuestion that counts the question as a first attempt
newLearningQuestion_countsAttempt(newTopic) == Context(Str(newTopic), 1, TRUE)

\* 2. New learning question - reset topic and attempts
newLearningQuestion(newTopic) == Context(Str(newTopic), 0, TRUE)

\* returningToPrevious that forgets to enter learning mode
returningToPrevious_chatMode(msgLower, topics) ==
    Context(relevantTopic(msgLower, topics), 0, FALSE)

\* returningToPrevious that counts the return as an attempt
returningToPrevious_countsAttempt(msgLower, topics) ==
    Context(relevantTopic(msgLower, topics), 1, TRUE)

\* 3. Returning to previous topic mentioned in history
returningToPrevious(msgLower, topics) ==
    Context(relevantTopic(msgLower, topics), 0, TRUE)

\* followUp that increments the attempt count
followUp_increments(prev) ==
    Context(prev.currentTopic, prev.attemptCount + 1, TRUE)

\* followUp that starts the attempts over
followUp_restarts(prev) == Context(prev.currentTopic, 0, TRUE)

\* 4. Follow-up question or hint request - same topic, same attempt count
followUp(prev) == Context(prev.currentTopic, prev.attemptCount, TRUE)

\* directSolutionRequest without Math.max: always SolutionAttempt
directSolutionRequest_alwaysThree(prev) ==
    Context(prev.currentTopic, SolutionAttempt, TRUE)

\* 5. Asking for solution directly
directSolutionRequest(prev) ==
    Context(prev.currentTopic, Max(prev.attemptCount, SolutionAttempt), TRUE)

\* genuineAttempt that counts an attempt twice
genuineAttempt_countsTwice(prev) ==
    Context(prev.currentTopic, prev.attemptCount + 2, TRUE)

\* 6. Genuine attempt at solving - increment attempts
genuineAttempt(prev) == Context(prev.currentTopic, prev.attemptCount + 1, TRUE)

\* substantiveResponse that goes straight to the solution
substantiveResponse_jumpsToSolution(prev) ==
    Context(prev.currentTopic, Max(prev.attemptCount, SolutionAttempt), TRUE)

\* 7. User providing a substantive answer
substantiveResponse(prev) ==
    Context(prev.currentTopic, prev.attemptCount + 1, TRUE)

\* 8. Default: previousContext || { null, 0, false }
maintainContext(prev) == IF prev # Absent THEN prev ELSE ZeroContext

\* the priority check: real-time data requests
isRealTimeRequest(msgLower) ==
    isWeatherRequest(msgLower) \/ isNewsRequest(msgLower)

\* What analyzeContext computes from the message alone: msgLower, the flags,
\* the topic extractTopic(message) gives and message.length.
messageAnalysis(msg) ==
    LET msgLower == trim(toLowerCase(msg))
    IN  [ msgLower |-> msgLower,
          isRealTimeRequest |-> isRealTimeRequest(msgLower),
          isAskingForSolution |-> isAskingForSolution(msgLower),
          isGenuineAttempt |-> isGenuineAttempt(msgLower),
          isReturningToPrevious |-> isReturningToPrevious(msgLower),
          isNewLearningQuestion |-> isNewLearningQuestion(msgLower),
          isFollowUp |-> isFollowUp(msgLower),
          isGeneralChat |-> isGeneralChat(msgLower),
          newTopic |-> extractTopic(msg),
          length |-> Len(msg) ]

\* messageAnalysis and previousTopics, tabulated over the inputs of the model
analysisOf == [msg \in Messages |-> messageAnalysis(msg)]

topicsOf == [history \in Histories |-> previousTopics(history)]

\* the decision logic that follows the priority check
decisionLogic(msg, history, prev) ==
    LET a == analysisOf[msg]
    IN  IF a.isGeneralChat /\ ~a.isNewLearningQuestion
        THEN generalChat
        ELSE IF a.isNewLearningQuestion /\ ~a.isReturningToPrevious
        THEN newLearningQuestion(a.newTopic)
        ELSE IF /\ a.isReturningToPrevious
                /\ Len(history) > 0
                /\ Len(topicsOf[history]) > 0
        THEN returningToPrevious(a.msgLower, topicsOf[history])
        ELSE IF a.isFollowUp /\ hasTopic(prev)
        THEN followUp(prev)
        ELSE IF a.isAskingForSolution /\ inLearningMode(prev)
        THEN directSolutionRequest(prev)
        ELSE IF a.isGenuineAttempt /\ inLearningMode(prev) /\ hasTopic(prev)
        THEN genuineAttempt(prev)
        ELSE IF /\ inLearningMode(prev)
                /\ hasTopic(prev)
                /\ ~a.isFollowUp
                /\ ~a.isAskingForSolution
                /\ a.length > SubstantiveLength
        THEN substantiveResponse(prev)
        ELSE maintainContext(prev)

\* what analyzeContext logs for the call: the rule that decides it
detected(msg, history, prev) ==
    LET a == analysisOf[msg]
    IN  IF a.isRealTimeRequest
        THEN "Real-time data request"
        ELSE IF a.isGeneralChat /\ ~a.isNewLearningQuestion
        THEN "General chat"
        ELSE IF a.isNewLearningQuestion /\ ~a.isReturningToPrevious
        THEN "New learning question"
        ELSE IF /\ a.isReturningToPrevious
                /\ Len(history) > 0
                /\ Len(topicsOf[history]) > 0
        THEN "Returning to previous topic"
        ELSE IF a.isFollowUp /\ hasTopic(prev)
        THEN "Follow-up question"
        ELSE IF a.isAskingForSolution /\ inLearningMode(prev)
        THEN "Direct solution request"
        ELSE IF a.isGenuineAttempt /\ inLearningMode(prev) /\ hasTopic(prev)
        THEN "Genuine attempt"
        ELSE IF /\ inLearningMode(prev)
                /\ hasTopic(prev)
                /\ ~a.isFollowUp
                /\ ~a.isAskingForSolution
                /\ a.length > SubstantiveLength
        THEN "Substantive response"
        ELSE "Maintaining previous context"

\* analyzeContext without the priority check
analyzeContext_noPriorityCheck(msg, history, prev) ==
    decisionLogic(msg, history, prev)

analyzeContext(msg, history, prev) ==
    IF analysisOf[msg].isRealTimeRequest
    THEN realTimeOverride
    ELSE decisionLogic(msg, history, prev)

-----------------------------------------------------------------------------
(* chat: the requests *)

\* the client sessions
Sessions == {"s1", "s2"}

\* the HTTP methods of the requests
Methods == {"OPTIONS", "GET", "POST"}

\* a JavaScript number and a JavaScript array
Num(n) == [num |-> n]
Arr(a) == [array |-> a]

\* Array.isArray
isArray(v) == DOMAIN v = {"array"}

\* !message || typeof message !== 'string'
invalidMessage(v) == ~IsStr(v) \/ v.str = ""

\* the messages the requests of the handler carry
ChatMessages ==
    { "how do I implement merge sort",
      "I tried recursion but got stuck",
      "just give me the answer",
      "what's the weather in Paris",
      "hello, any news today",
      "explain the latest sorting algorithm",
      "latest temperature in Paris",
      "back to merge sort",
      "hi" }

\* the histories the requests of the handler carry
ChatHistories ==
    { <<>>,
      <<UserMsg("how do I implement merge sort"),
        AssistantMsg("what happens when you split the array")>> }

\* req.body.message: a message, or missing, empty or no string
BodyMessages == {Str(m) : m \in ChatMessages} \cup {Undefined, Str(""), Num(42)}

\* req.body.conversationHistory: an array, or missing or no array
BodyHistories == {Arr(h) : h \in ChatHistories} \cup {Undefined, Str("none")}

\* JSON.stringify of a context: a property whose value is undefined is left
\* out
toJSON(c) ==
    IF c.currentTopic = Undefined
    THEN [attemptCount |-> c.attemptCount, isLearningMode |-> c.isLearningMode]
    ELSE c

\* the conversationContext of a request body as analyzeContext reads it: a
\* property that is missing reads as undefined
fromJSON(v) ==
    IF v = Absent THEN Absent
    ELSE [ currentTopic |-> IF "currentTopic" \in DOMAIN v THEN v.currentTopic
                            ELSE Undefined,
           attemptCount |-> v.attemptCount,
           isLearningMode |-> v.isLearningMode ]

-----------------------------------------------------------------------------
(* chat: real-time data *)

\* the handler's own patterns
chatWeatherPatterns ==
    <<"weather", "temperature", "how hot", "how cold", "climate", "forecast">>

chatNewsPatterns ==
    <<"news", "latest", "current events", "happening", "today's", "recent">>

\* weatherPatterns.some(pattern => msgLower.includes(pattern)), with
\* msgLower = message.toLowerCase()
weatherDetected(msg) == someIncluded(chatWeatherPatterns, toLowerCase(msg))

\* newsPatterns.some(pattern => msgLower.includes(pattern))
\*   && !msgLower.includes("weather")
newsDetected(msg) ==
    /\ someIncluded(chatNewsPatterns, toLowerCase(msg))
    /\ ~includes(toLowerCase(msg), "weather")

\* the detections, tabulated over the messages of the requests
detectedOf ==
    [msg \in ChatMessages |->
        [weather |-> weatherDetected(msg), news |-> newsDetected(msg)]]

\* what fetchWeather resolves to: the weather record, or an error marker when
\* no API key is configured or the provider call fails (it never rejects)
WeatherResults ==
    { [city |-> "Paris", temperature |-> "21", condition |-> "clear sky"],
      [error |-> "Weather API not configured"],
      [error |-> "Unable to fetch weather data"] }

\* what fetchNews resolves to: up to three headlines, or an error marker
NewsResults ==
    { [headlines |-> <<"New sorting record set">>],
      [headlines |-> <<>>],
      [error |-> "News API not configured"],
      [error |-> "Unable to fetch news data"] }

\* data.error (truthy)
hasError(data) == "error" \in DOMAIN data

\* let realTimeData = ""
NoRealTimeData == ""

weatherBlock(weatherData) ==
    "\n\n[REAL-TIME WEATHER DATA - USE THIS IN YOUR RESPONSE]\n"
        \o "Current weather in " \o weatherData.city \o ": \n"
        \o "- Temperature: " \o weatherData.temperature \o "\n"
        \o "- Condition: " \o weatherData.condition

RECURSIVE headlinesList(_, _)
headlinesList(headlines, i) ==
    IF i > Len(headlines) THEN ""
    ELSE (IF i > 1 THEN "\n" ELSE "") \o ToString(i) \o ". " \o headlines[i]
         \o headlinesList(headlines, i + 1)

newsBlock(newsData) ==
    "\n\n[REAL-TIME NEWS DATA - USE THIS IN YOUR RESPONSE]\n"
        \o "Latest news headlines:\n" \o headlinesList(newsData.headlines, 1)

-----------------------------------------------------------------------------
(* chat: the system prompt, as the sequence of the blocks appended to it *)

\* ${value} in a template literal
templateText(v) ==
    IF v = Null THEN "null"
    ELSE IF v = Undefined THEN "undefined"
    ELSE v.str

corePrompt == [block |-> "CORE RULES, For General Chat"]

learningModeBlock(currentTopic, attemptCount) ==
    [ block |-> "CURRENT MODE: LEARNING MODE",
      topic |-> templateText(currentTopic),
      attempt |-> attemptCount ]

firstInteraction ==
    [ block |-> "PROGRESSIVE GUIDANCE",
      guidance |-> "Give a conceptual hint that makes them think",
      isHint |-> TRUE, isSolution |-> FALSE ]

secondAttempt(attemptCount) ==
    [ block |-> "PROGRESSIVE GUIDANCE",
      attempt |-> attemptCount,
      guidance |-> "Provide stronger hints with techniques or approaches",
      isHint |-> TRUE, isSolution |-> FALSE ]

thirdAttempt(attemptCount) ==
    [ block |-> "PROGRESSIVE GUIDANCE",
      attempt |-> attemptCount,
      guidance |-> "Give pseudocode or step-by-step roadmap",
      isHint |-> TRUE, isSolution |-> FALSE ]

fourthAttempt(attemptCount) ==
    [ block |-> "PROGRESSIVE GUIDANCE",
      attempt |-> attemptCount,
      guidance |-> "Provide COMPLETE solution with detailed explanation",
      isHint |-> FALSE, isSolution |-> TRUE ]

importantNote == [block |-> "IMPORTANT: follow-up questions"]

\* the tiers with the thresholds shifted by one attempt
progressiveGuidance_offByOne(attemptCount) ==
    IF attemptCount = 0 THEN firstInteraction
    ELSE IF attemptCount = 1 THEN firstInteraction
    ELSE IF attemptCount = 2 THEN secondAttempt(attemptCount)
    ELSE IF attemptCount = 3 THEN thirdAttempt(attemptCount)
    ELSE fourthAttempt(attemptCount)

\* if (attemptCount === 0) ... else if (=== 1) ... else if (=== 2) ... else
progressiveGuidance(attemptCount) ==
    IF attemptCount = 0 THEN firstInteraction
    ELSE IF attemptCount = 1 THEN secondAttempt(attemptCount)
    ELSE IF attemptCount = 2 THEN thirdAttempt(attemptCount)
    ELSE fourthAttempt(attemptCount)

buildSystemPrompt(currentContext) ==
    <<corePrompt>> \o
    (IF currentContext.isLearningMode
     THEN << learningModeBlock(currentContext.currentTopic,
                               currentContext.attemptCount),
             progressiveGuidance(currentContext.attemptCount),
             importantNote >>
     ELSE <<>>)

\* conversationHistory.map(msg => `${role}: ${msg.text}`).join('\n')
RECURSIVE historyString(_)
historyString(history) ==
    IF Len(history) = 0 THEN ""
    ELSE (IF history[1].role = "user" THEN "User" ELSE "AI") \o ": "
         \o history[1].text
         \o (IF Len(history) > 1 THEN "\n" ELSE "")
         \o historyString(Tail(history))

\* the contents sent to the generation service
buildPrompt(history, msg, realTimeData) ==
    IF historyString(history) # ""
    THEN historyString(history) \o "\n\nUser: " \o msg \o realTimeData
    ELSE "User: " \o msg \o realTimeData

-----------------------------------------------------------------------------
(* chat: the generation service *)

\* getApiKey throws this when no key is configured
NoApiKey == "GEMINI_API_KEY not configured in .env or Firebase config"

HintReply ==
    "{\"text\":\"What happens when you split the array?\",\"mode\":\"learning\",\"isHint\":true,\"isSolution\":false}"

ReplyWithContext ==
    "{\"text\":\"Sure\",\"mode\":\"chat\",\"isHint\":false,\"isSolution\":false,\"conversationContext\":{\"currentTopic\":\"injected\",\"attemptCount\":3,\"isLearningMode\":true}}"

NotJSON == "I cannot answer that"

\* what generateContent does: it throws an error (with or without a message)
\* or returns a response with a text or without one
GenerationResults ==
    { [threw |-> "quota exceeded"],
      [threw |-> ""],
      [text |-> Str(HintReply)],
      [text |-> Str(ReplyWithContext)],
      [text |-> Str(NotJSON)],
      [text |-> Undefined] }

\* JSON.parse on the texts of the model: the value, or the SyntaxError thrown
JSONparse(text) ==
    CASE text = "{}" -> [value |-> [k \in {} |-> TRUE]]
      [] text = HintReply ->
            [value |-> [ text |-> "What happens when you split the array?",
                         mode |-> "learning",
                         isHint |-> TRUE,
                         isSolution |-> FALSE ]]
      [] text = ReplyWithContext ->
            [value |-> [ text |-> "Sure",
                         mode |-> "chat",
                         isHint |-> FALSE,
                         isSolution |-> FALSE,
                         conversationContext |->
                             Context(Str("injected"), 3, TRUE) ]]
      [] OTHER -> [threw |-> "Unexpected token I in JSON at position 0"]

\* { conversationContext: currentContext, ...result }: the reply's own
\* conversationContext wins
responseBody_replyLast(result, currentContext) ==
    [k \in DOMAIN result \cup {"conversationContext"} |->
        IF k \in DOMAIN result THEN result[k] ELSE toJSON(currentContext)]

\* { ...result, conversationContext: currentContext }, as JSON
responseBody(result, currentContext) ==
    [k \in DOMAIN result \cup {"conversationContext"} |->
        IF k = "conversationContext" THEN toJSON(currentContext) ELSE result[k]]

\* details that hide the error's message
errorDetails_generic(errorMessage) == "Unknown error"

\* error.message || "Unknown error"
errorDetails(errorMessage) ==
    IF errorMessage # "" THEN errorMessage ELSE "Unknown error"

-----------------------------------------------------------------------------
(* chat: the handler, from one suspension point (await) to the next *)

\* no request yet
NoRequest ==
    [ pc |-> "idle",
      method |-> "",
      body |-> [ message |-> Undefined,
                 conversationHistory |-> Undefined,
                 conversationContext |-> Absent ],
      apiKeyConfigured |-> FALSE,
      currentContext |-> Absent,
      weatherData |-> Undefined,
      newsData |-> Undefined,
      realTimeData |-> NoRealTimeData,
      systemPrompt |-> <<>>,
      prompt |-> "",
      generation |-> Undefined,
      calls |-> <<>>,
      responses |-> <<>> ]

\* res.status(status).json(body) / .send(body), and the handler returns
respond(r, status, body) ==
    [r EXCEPT !.pc = "done",
              !.responses = Append(@, [status |-> status, body |-> body])]

\* the catch block answering 400
serverError_badRequest(r, errorMessage) ==
    respond(r, 400, [ error |-> "Internal server error",
                      details |-> errorDetails(errorMessage) ])

\* a catch block that answers twice: the error, then its details
serverError_answersTwice(r, errorMessage) ==
    respond(respond(r, 500, [error |-> "Internal server error"]),
            500, [details |-> errorDetails(errorMessage)])

\* the catch block
serverError(r, errorMessage) ==
    respond(r, 500, [ error |-> "Internal server error",
                      details |-> errorDetails(errorMessage) ])

\* build the system prompt and the contents, call generateContent and await
callGeneration(r) ==
    [r EXCEPT !.systemPrompt = buildSystemPrompt(r.currentContext),
              !.prompt = buildPrompt(r.body.conversationHistory.array,
                                     r.body.message.str, r.realTimeData),
              !.calls = Append(@, "generateContent"),
              !.pc = "generateContent"]

\* news detection: call fetchNews and await, or go on
detectNews(r) ==
    IF detectedOf[r.body.message.str].news
    THEN [r EXCEPT !.calls = Append(@, "fetchNews"), !.pc = "fetchNews"]
    ELSE callGeneration(r)

\* weather detection: call fetchWeather and await, or go on
detectWeather(r) ==
    IF detectedOf[r.body.message.str].weather
    THEN [r EXCEPT !.calls = Append(@, "fetchWeather"), !.pc = "fetchWeather"]
    ELSE detectNews(r)

\* the handler with the history validated after the call of analyzeContext
receive_analyzesFirst(method, body, apiKeyConfigured) ==
    LET r == [NoRequest EXCEPT !.method = method, !.body = body,
                               !.apiKeyConfigured = apiKeyConfigured]
        called == [r EXCEPT !.calls = Append(@, "analyzeContext")]
    IN  IF method = "OPTIONS" THEN respond(r, 204, [sent |-> ""])
        ELSE IF method # "POST"
        THEN respond(r, 405, [error |-> "Method Not Allowed"])
        ELSE IF invalidMessage(body.message)
        THEN respond(r, 400, [error |-> "Invalid message"])
        ELSE IF ~isArray(body.conversationHistory)
        THEN respond(called, 400, [error |-> "Invalid conversation history"])
        ELSE LET currentContext ==
                     analyzeContext(body.message.str,
                                    body.conversationHistory.array,
                                    fromJSON(body.conversationContext))
                 analyzed == [called EXCEPT !.currentContext = currentContext]
             IN  IF ~apiKeyConfigured THEN serverError(analyzed, NoApiKey)
                 ELSE detectWeather(analyzed)

\* the handler up to its first await, or to its response
receive(method, body, apiKeyConfigured) ==
    LET r == [NoRequest EXCEPT !.method = method, !.body = body,
                               !.apiKeyConfigured = apiKeyConfigured]
    IN  IF method = "OPTIONS" THEN respond(r, 204, [sent |-> ""])
        ELSE IF method # "POST"
        THEN respond(r, 405, [error |-> "Method Not Allowed"])
        ELSE IF invalidMessage(body.message)
        THEN respond(r, 400, [error |-> "Invalid message"])
        ELSE IF ~isArray(body.conversationHistory)
        THEN respond(r, 400, [error |-> "Invalid conversation history"])
        ELSE LET currentContext ==
                     analyzeContext(body.message.str,
                                    body.conversationHistory.array,
                                    fromJSON(body.conversationContext))
                 analyzed ==
                     [r EXCEPT !.currentContext = currentContext,
                               !.calls = Append(@, "analyzeContext")]
             IN  IF ~apiKeyConfigured THEN serverError(analyzed, NoApiKey)
                 ELSE detectWeather(analyzed)

\* a weather error marker thrown on to the catch block
weatherFetched_throws(r, weatherData) ==
    LET fetched == [r EXCEPT !.weatherData = weatherData]
    IN  IF ~hasError(weatherData)
        THEN detectNews([fetched EXCEPT
                            !.realTimeData = weatherBlock(weatherData)])
        ELSE serverError(fetched, weatherData.error)

\* the handler after await fetchWeather
weatherFetched(r, weatherData) ==
    LET fetched == [r EXCEPT !.weatherData = weatherData]
    IN  detectNews(IF ~hasError(weatherData)
                   THEN [fetched EXCEPT
                            !.realTimeData = weatherBlock(weatherData)]
                   ELSE fetched)

\* the handler after await fetchNews
newsFetched(r, newsData) ==
    LET fetched == [r EXCEPT !.newsData = newsData]
    IN  callGeneration(
            IF ~hasError(newsData) /\ Len(newsData.headlines) > 0
            THEN [fetched EXCEPT !.realTimeData = newsBlock(newsData)]
            ELSE fetched)

\* the context kept in a variable that the requests in flight share: the
\* response carries the context of another request
generated_sharedContext(r, generation) ==
    LET others == {c \in Sessions : /\ requests[c].body # r.body
                                    /\ requests[c].currentContext # Absent}
        shared == IF others = {} THEN r.currentContext
                  ELSE requests[CHOOSE c \in others : TRUE].currentContext
        returned == [r EXCEPT !.generation = generation]
    IN  IF "threw" \in DOMAIN generation
        THEN serverError(returned, generation.threw)
        ELSE LET text == IF Truthy(generation.text) THEN generation.text.str
                         ELSE "{}"
                 result == JSONparse(text)
             IN  IF "threw" \in DOMAIN result
                 THEN serverError(returned, result.threw)
                 ELSE respond(returned, 200, responseBody(result.value, shared))

\* the handler after await generateContent
generated(r, generation) ==
    LET returned == [r EXCEPT !.generation = generation]
    IN  IF "threw" \in DOMAIN generation
        THEN serverError(returned, generation.threw)
        ELSE LET text == IF Truthy(generation.text) THEN generation.text.str
                         ELSE "{}"
                 result == JSONparse(text)
             IN  IF "threw" \in DOMAIN result
                 THEN serverError(returned, result.threw)
                 ELSE respond(returned, 200,
                              responseBody(result.value, r.currentContext))

\* the last response of a request
lastResponse(r) == r.responses[Len(r.responses)]

\* the conversationContext the client holds once the request is answered:
\* the one of a 200 response
heldAfter(r, before) ==
    IF r.pc = "done" /\ lastResponse(r).status = 200
    THEN lastResponse(r).body.conversationContext
    ELSE before

\* the guidance tiers served once the request is answered
servedAfter(r, before) ==
    IF r.pc = "done" /\ lastResponse(r).status = 200
    THEN IF ~r.currentContext.isLearningMode THEN {}
         ELSE IF r.currentContext.attemptCount = 0
         THEN {r.systemPrompt[3].guidance}
         ELSE before \cup {r.systemPrompt[3].guidance}
    ELSE before

-----------------------------------------------------------------------------
(* The contexts a conversation starts from *)

\* the topics of a conversationContext the client sends on its own
ClientTopics == {Null, Str(""), Str("merge sort")}

\* the conversationContext values a client can put in a request body
ClientContexts ==
    {Absent} \cup
    { Context(t, n, l) : t \in ClientTopics, n \in 0..MaxClientAttemptCount,
                         l \in BOOLEAN }

\* { null, 0, false } on a session's first turn, or no context at all
FreshContexts == {Absent, ZeroContext}

\* "" is never the message of a call: the handler rejects it
NoMessage == ""

-----------------------------------------------------------------------------
(* The state machine: one action per turn of the conversation *)

TypeOK ==
    /\ message \in Messages \cup {NoMessage}
    /\ conversationHistory \in Histories
    /\ context = Absent \/ context.attemptCount \in 0..MaxAttemptCount

\* any context a client may send with its first request
Init ==
    /\ message = NoMessage
    /\ conversationHistory = <<>>
    /\ previousContext = Absent
    /\ context \in ClientContexts
    /\ requests = [c \in Sessions |-> NoRequest]
    /\ held = [c \in Sessions |-> Absent]
    /\ served = [c \in Sessions |-> {}]
    /\ thread = <<>>

\* a session that starts fresh
InitFresh ==
    /\ message = NoMessage
    /\ conversationHistory = <<>>
    /\ previousContext = Absent
    /\ context \in FreshContexts
    /\ requests = [c \in Sessions |-> NoRequest]
    /\ held = [c \in Sessions |-> Absent]
    /\ served = [c \in Sessions |-> {}]
    /\ thread = <<>>

\* One turn: the handler calls analyzeContext(message, conversationHistory,
\* conversationContext) with the context the caller replays, and the caller
\* keeps the context returned.
Turn(msg, history) ==
    LET currentContext == analyzeContext(msg, history, context)
    IN  /\ currentContext.attemptCount <= MaxAttemptCount
        /\ message' = msg
        /\ conversationHistory' = history
        /\ previousContext' = context
        /\ context' = currentContext
        /\ UNCHANGED <<chatVars, thread>>

Next == \E msg \in Messages, history \in Histories : Turn(msg, history)

Spec == Init /\ [][Next]_vars

SpecFresh == InitFresh /\ [][Next]_vars

-----------------------------------------------------------------------------
(* A conversation followed turn by turn from the turn that opens a topic *)

\* what the user says in the conversations that are followed
ConversationMessages ==
    { "how do I implement merge sort",
      "explain it",
      "back to binary search",
      "I tried recursion but got stuck",
      "maybe",
      "just give me the answer",
      "hello" }

\* the histories the requests of these conversations carry
ConversationHistories ==
    { <<>>,
      <<UserMsg("how do I implement merge sort"),
        AssistantMsg("what happens when you split the array")>> }

\* the rules that set a topic and reset the attempts
OpensTopic == {"New learning question", "Returning to previous topic"}

\* the rules that reset everything
ResetsEverything == {"Real-time data request", "General chat"}

\* a turn of the conversation
TurnOf(msg, history, currentContext) ==
    [message |-> msg, history |-> history, context |-> currentContext]

\* the thread after a turn: a turn that opens a topic starts it, a turn that
\* resets everything ends it, any other turn continues it
threadAfter(before, rule, turn) ==
    IF rule \in OpensTopic THEN <<turn>>
    ELSE IF rule \in ResetsEverything \/ before = <<>> THEN <<>>
    ELSE Append(before, turn)

\* One turn of a conversation that is followed: the same call as Turn, with
\* the context the caller replays.
Says(msg, history) ==
    LET currentContext == analyzeContext(msg, history, context)
        rule == detected(msg, history, context)
        after == threadAfter(thread, rule, TurnOf(msg, history, currentContext))
    IN  /\ currentContext.attemptCount <= MaxAttemptCount
        /\ Len(after) <= MaxThread
        /\ message' = msg
        /\ conversationHistory' = history
        /\ previousContext' = context
        /\ context' = currentContext
        /\ thread' = after
        /\ UNCHANGED chatVars

NextConversation ==
    \E msg \in ConversationMessages, history \in ConversationHistories :
        Says(msg, history)

SpecConversation == InitFresh /\ [][NextConversation]_vars

-----------------------------------------------------------------------------
(* chat: the state machine, one action per run of the handler between two
   suspension points *)

\* the classifier's variables while the handler's requests are followed
ClassifierIdle ==
    /\ message = NoMessage
    /\ conversationHistory = <<>>
    /\ previousContext = Absent
    /\ context = Absent
    /\ thread = <<>>

\* one session that starts fresh
InitChat ==
    /\ ClassifierIdle
    /\ requests = [c \in Sessions |-> NoRequest]
    /\ held \in {[c \in Sessions |-> IF c = "s1" THEN first ELSE Absent] :
                    first \in FreshContexts}
    /\ served = [c \in Sessions |-> {}]

\* the sessions of a client each start without a context
InitConcurrent ==
    /\ ClassifierIdle
    /\ requests = [c \in Sessions |-> NoRequest]
    /\ held = [c \in Sessions |-> Absent]
    /\ served = [c \in Sessions |-> {}]

\* the state of session c after its request moved to r
Moved(c, r) ==
    /\ requests' = [requests EXCEPT ![c] = r]
    /\ held' = [held EXCEPT ![c] = heldAfter(r, @)]
    /\ served' = [served EXCEPT ![c] = servedAfter(r, @)]
    /\ UNCHANGED classifierVars

\* a request of session c arrives, with the context the client holds
Receive(c, method, bodyMessage, bodyHistory, apiKeyConfigured) ==
    /\ requests[c].pc = "idle"
    /\ LET r == receive(method,
                        [ message |-> bodyMessage,
                          conversationHistory |-> bodyHistory,
                          conversationContext |-> held[c] ],
                        apiKeyConfigured)
       IN  /\ r.currentContext # Absent =>
                  r.currentContext.attemptCount <= MaxAttemptCount
           /\ Moved(c, r)

\* fetchWeather resolves
WeatherReturns(c, weatherData) ==
    /\ requests[c].pc = "fetchWeather"
    /\ Moved(c, weatherFetched(requests[c], weatherData))

\* fetchNews resolves
NewsReturns(c, newsData) ==
    /\ requests[c].pc = "fetchNews"
    /\ Moved(c, newsFetched(requests[c], newsData))

\* generateContent resolves or rejects
GenerationReturns(c, generation) ==
    /\ requests[c].pc = "generateContent"
    /\ Moved(c, generated(requests[c], generation))

\* the invocation that answered ends, and its locals with it
Completes(c) ==
    /\ requests[c].pc = "done"
    /\ requests' = [requests EXCEPT ![c] = NoRequest]
    /\ UNCHANGED <<held, served, classifierVars>>

\* one session, every request
NextChat ==
    \/ \E method \in Methods, bodyMessage \in BodyMessages,
          bodyHistory \in BodyHistories, apiKeyConfigured \in BOOLEAN :
            Receive("s1", method, bodyMessage, bodyHistory, apiKeyConfigured)
    \/ \E weatherData \in WeatherResults : WeatherReturns("s1", weatherData)
    \/ \E newsData \in NewsResults : NewsReturns("s1", newsData)
    \/ \E generation \in GenerationResults : GenerationReturns("s1", generation)
    \/ Completes("s1")

SpecChat == InitChat /\ [][NextChat]_vars

\* the messages of the sessions that run side by side
ConcurrentMessages ==
    { "how do I implement merge sort",
      "I tried recursion but got stuck",
      "what's the weather in Paris",
      "hello, any news today" }

\* the requests of the sessions interleave at the handler's awaits
NextConcurrent ==
    \E c \in Sessions :
        \/ \E msg \in ConcurrentMessages, apiKeyConfigured \in BOOLEAN :
                Receive(c, "POST", Str(msg), Arr(<<>>), apiKeyConfigured)
        \/ \E weatherData \in WeatherResults : WeatherReturns(c, weatherData)
        \/ \E newsData \in NewsResults : NewsReturns(c, newsData)
        \/ \E generation \in GenerationResults :
                GenerationReturns(c, generation)
        \/ Completes(c)

SpecConcurrent == InitConcurrent /\ [][NextConcurrent]_vars

-----------------------------------------------------------------------------
(* What the claims speak of *)

\* a call has been made
Called == message # NoMessage

\* what analyzeContext computes from the last message
LastAnalysis == analysisOf[message]

\* the lowercased, trimmed text of the last message
MsgLower == LastAnalysis.msgLower

\* previousContext.currentTopic, null when previousContext is absent
PreviousTopic ==
    IF previousContext = Absent THEN Null ELSE previousContext.currentTopic

\* the data-model invariant of a context
WellFormed(c) == c.isLearningMode \/ c.currentTopic = Null

\* the last message contains a weather or news marker phrase
MatchesRealTime == LastAnalysis.isRealTimeRequest

\* the last message is a greeting/acknowledgement and no learning question
MatchesGeneralChat ==
    LastAnalysis.isGeneralChat /\ ~LastAnalysis.isNewLearningQuestion

\* the last message is a new learning question and no back-reference
MatchesNewLearningQuestion ==
    LastAnalysis.isNewLearningQuestion /\ ~LastAnalysis.isReturningToPrevious

\* the last message is a back-reference and a prior user message of the
\* history yields a topic
MatchesReturning ==
    /\ LastAnalysis.isReturningToPrevious
    /\ Len(conversationHistory) > 0
    /\ Len(topicsOf[conversationHistory]) > 0

-----------------------------------------------------------------------------
(* C1 *)

\* C1: whenever the lowercased, trimmed message contains a weather or news
\* marker, analyzeContext returns {null, 0, false}, whatever the history, the
\* previousContext and the other markers of the message.
C1_RealTimeOverride ==
    (Called /\ MatchesRealTime) => context = ZeroContext

\* a learning question about the weather, asked in learning mode at
\* attemptCount >= 2, resets the context
C1_Witness ==
    /\ message = "explain the weather forecast"
    /\ previousContext # Absent
    /\ previousContext.isLearningMode
    /\ previousContext.attemptCount >= 2
    /\ context = ZeroContext

-----------------------------------------------------------------------------
(* C2 *)

\* C2 as stated: for every input, previousContext with isLearningMode = false
\* and a non-null topic included, an output with isLearningMode = false has
\* currentTopic = null.
C2_AllInputs ==
    (Called /\ ~context.isLearningMode) => context.currentTopic = Null

\* C2, amended: for every message, every history and every previousContext
\* that is absent or has currentTopic = null whenever isLearningMode = false,
\* an output with isLearningMode = false has currentTopic = null.
C2_WellFormedInputs ==
    (/\ Called
     /\ previousContext = Absent \/ WellFormed(previousContext)
     /\ ~context.isLearningMode) => context.currentTopic = Null

\* the default rule hands back a chat-mode previousContext the client sent
C2_Witness ==
    /\ message = "two loops"
    /\ previousContext # Absent
    /\ ~previousContext.isLearningMode
    /\ previousContext.currentTopic = Null
    /\ previousContext.attemptCount > 0
    /\ context = previousContext

-----------------------------------------------------------------------------
(* C3 *)

\* C3: in a conversation that starts fresh and replays each returned context,
\* every context produced has currentTopic = null whenever isLearningMode =
\* false.
C3_ThreadedInvariant == Called => WellFormed(context)

\* a conversation that left learning mode after some attempts
C3_Witness ==
    /\ Called
    /\ previousContext # Absent
    /\ previousContext.isLearningMode
    /\ previousContext.attemptCount >= 2
    /\ ~context.isLearningMode
    /\ context.currentTopic = Null

-----------------------------------------------------------------------------
(* C4 *)

\* the last message contains a follow-up marker phrase
HasFollowUpMarker == LastAnalysis.isFollowUp

\* the attempt count and the topic of previousContext are carried
CarriesTopicAndCount ==
    /\ context.attemptCount = previousContext.attemptCount
    /\ context.currentTopic = previousContext.currentTopic

-----------------------------------------------------------------------------
(* C5 *)

\* C5: analyzeContext("what about time complexity?", [], {"merge sort", 1,
\* true}) returns {"merge sort", 1, true}.
C5_Scenario3 ==
    (/\ message = "what about time complexity?"
     /\ conversationHistory = <<>>
     /\ previousContext = Context(Str("merge sort"), 1, TRUE)) =>
        context = Context(Str("merge sort"), 1, TRUE)

-----------------------------------------------------------------------------
(* C6 *)

\* the last message contains a solution-request phrase
HasSolutionRequest == LastAnalysis.isAskingForSolution

\* the previous topic with attemptCount = max(previous attemptCount, 3)
JumpsToSolution ==
    context = Context(previousContext.currentTopic,
                      Max(previousContext.attemptCount, 3), TRUE)

\* C6 as stated: for every message containing a solution-request phrase and
\* every previousContext in learning mode, analyzeContext carries the topic
\* and returns attemptCount = max(previousContext.attemptCount, 3) in
\* learning mode.
C6_AnySolutionRequest ==
    (Called /\ HasSolutionRequest /\ inLearningMode(previousContext)) =>
        JumpsToSolution

\* C6, amended: the same for every message containing a solution-request
\* phrase to which none of the earlier rules applies (real-time override,
\* general chat, new learning question, return to a topic found in the
\* history, follow-up on a non-empty previous topic).
C6_SolutionRequestRule ==
    (/\ Called
     /\ HasSolutionRequest
     /\ ~MatchesRealTime
     /\ ~MatchesGeneralChat
     /\ ~MatchesNewLearningQuestion
     /\ ~MatchesReturning
     /\ ~(HasFollowUpMarker /\ hasTopic(previousContext))
     /\ inLearningMode(previousContext)) => JumpsToSolution

\* a prior attemptCount above 3 is not lowered
C6_Witness ==
    /\ message = "just give me the answer"
    /\ previousContext = Context(Str("merge sort"), 4, TRUE)
    /\ context = Context(Str("merge sort"), 4, TRUE)

\* a prior attemptCount of 0 yields 3
C6_WitnessFromZero ==
    /\ message = "just give me the answer"
    /\ previousContext = Context(Str("merge sort"), 0, TRUE)
    /\ context = Context(Str("merge sort"), 3, TRUE)

-----------------------------------------------------------------------------
(* C7 *)

\* C7: for every message that contains a learning-intent marker and no
\* back-reference phrase, whatever the history and the previousContext,
\* analyzeContext returns attemptCount = 0.
C7_TopicReset ==
    (/\ Called
     /\ LastAnalysis.isNewLearningQuestion
     /\ ~LastAnalysis.isReturningToPrevious) => context.attemptCount = 0

\* the same question asked again at attemptCount >= 3 on its own topic
C7_Witness ==
    /\ message = "how do I implement merge sort"
    /\ previousContext # Absent
    /\ previousContext.currentTopic = Str("implement merge sort")
    /\ previousContext.attemptCount >= 3
    /\ context = Context(Str("implement merge sort"), 0, TRUE)

-----------------------------------------------------------------------------
(* C8 *)

\* msg is a greeting/acknowledgement: a chat keyword, alone or followed by a
\* space or "!", and no learning-question phrase
Greeting(msg) ==
    analysisOf[msg].isGeneralChat /\ ~analysisOf[msg].isNewLearningQuestion

\* C8: classifying a greeting yields {null, 0, false} whatever the prior
\* context, and classifying the same greeting again, with that result as
\* previousContext, yields {null, 0, false} again.
C8_ChatResetIdempotent ==
    [][ Greeting(message') =>
            /\ context' = ZeroContext
            /\ (message = message' =>
                    previousContext' = ZeroContext /\ context' = context) ]_vars

\* "hi" classified a second time: the history holds the first "hi" and the
\* previousContext is the context the first classification returned
C8_Witness ==
    /\ message = "hi"
    /\ conversationHistory = <<UserMsg("hi"), AssistantMsg("hello")>>
    /\ previousContext = ZeroContext
    /\ context = ZeroContext

-----------------------------------------------------------------------------
(* C9 *)

\* C9: whenever the currentTopic returned differs from the one of
\* previousContext (null when previousContext is absent), the attemptCount
\* returned is 0.
C9_ResetOnTopicChange ==
    (Called /\ context.currentTopic # PreviousTopic) =>
        context.attemptCount = 0

\* a conversation moves from one topic, after attempts, to another
C9_Witness ==
    /\ Called
    /\ inLearningMode(previousContext)
    /\ hasTopic(previousContext)
    /\ previousContext.attemptCount >= 2
    /\ Truthy(context.currentTopic)
    /\ context.currentTopic # previousContext.currentTopic
    /\ context.attemptCount = 0

-----------------------------------------------------------------------------
(* C10 *)

\* a previous topic exists: previousContext carries a topic string (the empty
\* string is a topic)
PreviousTopicExists == IsStr(PreviousTopic)

\* the condition of rule i of the ordered table, on the last call
RuleCondition(i) ==
    CASE i = 1 -> MatchesRealTime
      [] i = 2 -> MatchesGeneralChat
      [] i = 3 -> MatchesNewLearningQuestion
      [] i = 4 -> MatchesReturning
      [] i = 5 -> HasFollowUpMarker /\ PreviousTopicExists
      [] i = 6 -> HasSolutionRequest /\ inLearningMode(previousContext)
      [] i = 7 -> /\ LastAnalysis.isGenuineAttempt
                  /\ inLearningMode(previousContext)
                  /\ PreviousTopicExists
      [] i = 8 -> /\ inLearningMode(previousContext)
                  /\ PreviousTopicExists
                  /\ ~HasFollowUpMarker
                  /\ ~HasSolutionRequest
                  /\ LastAnalysis.length > 10
      [] i = 9 -> TRUE

\* the transform of rule i of the ordered table, on the last call
RuleTransform(i) ==
    CASE i = 1 -> ZeroContext
      [] i = 2 -> ZeroContext
      [] i = 3 -> Context(Str(LastAnalysis.newTopic), 0, TRUE)
      [] i = 4 -> Context(relevantTopic(MsgLower,
                                        topicsOf[conversationHistory]),
                          0, TRUE)
      [] i = 5 -> Context(PreviousTopic, previousContext.attemptCount, TRUE)
      [] i = 6 -> Context(PreviousTopic,
                          Max(previousContext.attemptCount, 3), TRUE)
      [] i = 7 -> Context(PreviousTopic, previousContext.attemptCount + 1, TRUE)
      [] i = 8 -> Context(PreviousTopic, previousContext.attemptCount + 1, TRUE)
      [] i = 9 -> IF previousContext = Absent THEN ZeroContext
                  ELSE previousContext

\* the lowest-numbered rule whose condition holds
FirstMatchingRule ==
    CHOOSE i \in 1..9 : RuleCondition(i) /\ \A j \in 1..(i - 1) : ~RuleCondition(j)

\* C10: analyzeContext returns the transform of the lowest-numbered rule of
\* the ordered table whose condition holds.
C10_FirstMatchingRuleWins ==
    Called => context = RuleTransform(FirstMatchingRule)

-----------------------------------------------------------------------------
(* C11 *)

\* the last message contains a back-reference phrase
HasBackReference == LastAnalysis.isReturningToPrevious

\* the non-empty topics extracted from the user messages of a history
UserTopics(history) ==
    { extractTopic(history[i].text) :
        i \in {j \in 1..Len(history) : history[j].role = "user"} } \ {""}

\* the distinct topics of a sequence of topics, most recent first
RECURSIVE recentDistinct(_, _)
recentDistinct(topics, seen) ==
    IF Len(topics) = 0 THEN <<>>
    ELSE LET last == topics[Len(topics)]
             rest == SubSeq(topics, 1, Len(topics) - 1)
         IN  IF last \in seen THEN recentDistinct(rest, seen)
             ELSE <<last>> \o recentDistinct(rest, seen \cup {last})

\* what the claim says of the topic returned for msg and history: the set
\* the topic is taken from, the topics whose first word occurs in the
\* message (oldest first) and the distinct topics (most recent first)
returnTopicClaim(msg, history) ==
    LET topics == previousTopics(history)
        msgLower == trim(toLowerCase(msg))
    IN  [ userTopics |-> UserTopics(history),
          matching |-> SelectSeq(topics,
                           LAMBDA t : includes(msgLower, split(t)[1])),
          distinct |-> recentDistinct(topics, {}) ]

returnTopicClaimOf ==
    [msg \in Messages, history \in Histories |-> returnTopicClaim(msg, history)]

\* C11: for every message that contains a back-reference phrase and matches
\* no earlier rule, with a non-empty history, analyzeContext returns
\* {topic, 0, true} where topic is one of the non-empty topics extracted from
\* the user messages of the history: the oldest one whose first word occurs
\* in the message, else the second-most-recent distinct one.
C11_ReturnToTopic ==
    (/\ Called
     /\ HasBackReference
     /\ ~MatchesRealTime
     /\ ~MatchesGeneralChat
     /\ ~MatchesNewLearningQuestion
     /\ Len(conversationHistory) > 0) =>
        LET claim == returnTopicClaimOf[message, conversationHistory]
        IN  /\ context.attemptCount = 0
            /\ context.isLearningMode
            /\ IsStr(context.currentTopic)
            /\ context.currentTopic.str \in claim.userTopics
            /\ Len(claim.matching) > 0 =>
                    context.currentTopic.str = claim.matching[1]
            /\ (Len(claim.matching) = 0 /\ Len(claim.distinct) >= 2) =>
                    context.currentTopic.str = claim.distinct[2]

-----------------------------------------------------------------------------
(* C12 *)

\* c has the shape of a ConversationContext: currentTopic a string or null,
\* attemptCount a non-negative integer, isLearningMode a boolean
IsConversationContext(c) ==
    /\ c # Absent
    /\ c.currentTopic = Null \/ IsStr(c.currentTopic)
    /\ c.attemptCount \in Nat
    /\ c.isLearningMode \in BOOLEAN

\* C12: for every message, every history of {role, text} messages and every
\* previousContext that is absent or a well-formed ConversationContext,
\* analyzeContext returns a value whose currentTopic is a string or null
\* (never undefined), whose attemptCount is a non-negative integer and whose
\* isLearningMode is a boolean.
C12_TotalWellFormed ==
    (/\ Called
     /\ previousContext = Absent \/ IsConversationContext(previousContext)) =>
        IsConversationContext(context)

-----------------------------------------------------------------------------
(* C13 *)

\* the tokens of s between runs of white space
RECURSIVE tokensFrom(_, _, _)
tokensFrom(s, i, cur) ==
    LET done == IF cur = "" THEN <<>> ELSE <<cur>>
    IN  IF i > Len(s) THEN done
        ELSE IF CharAt(s, i) \in WhiteSpace
        THEN done \o tokensFrom(s, i + 1, "")
        ELSE tokensFrom(s, i + 1, cur \o CharAt(s, i))

\* the topic the claim describes: the first three tokens of the lowercased
\* message, split on white space, that are no stop words and longer than 3
topicClaim(msg) ==
    LET tokens == tokensFrom(toLowerCase(msg), 1, "")
        kept == SelectSeq(tokens,
                    LAMBDA w : ~listIncludes(stopWords, w) /\ Len(w) > 3)
    IN  join(SubSeq(kept, 1, IF Len(kept) < 3 THEN Len(kept) ELSE 3))

topicClaimOf == [msg \in Messages |-> topicClaim(msg)]

\* C13: the topic extracted from a message is the first three tokens, joined
\* by single spaces, of the lowercased message split on white space without
\* the stop words and the tokens of length <= 3; and a message matching only
\* the new-learning-question rule yields {thatTopic, 0, true}.
C13_TopicExtraction ==
    Called =>
        /\ LastAnalysis.newTopic = topicClaimOf[message]
        /\ (~MatchesRealTime /\ MatchesNewLearningQuestion) =>
                context = Context(Str(topicClaimOf[message]), 0, TRUE)

-----------------------------------------------------------------------------
(* C14 *)

\* the requests whose system prompt has been built
Prompted == {c \in Sessions : requests[c].systemPrompt # <<>>}

\* the guidance tier blocks of a system prompt
GuidanceBlocks(systemPrompt) ==
    SelectSeq(systemPrompt, LAMBDA b : b.block = "PROGRESSIVE GUIDANCE")

\* the learning-mode blocks of a system prompt
LearningBlocks(systemPrompt) ==
    SelectSeq(systemPrompt, LAMBDA b : b.block # corePrompt.block)

\* the four guidance tiers of the table, by what the instruction asks for
ConceptualHint == "Give a conceptual hint that makes them think"
StrongerHint == "Provide stronger hints with techniques or approaches"
Roadmap == "Give pseudocode or step-by-step roadmap"
FullSolution == "Provide COMPLETE solution with detailed explanation"

\* the row of the tier table for an attemptCount
TierRow(attemptCount) ==
    CASE attemptCount = 0 ->
            [guidance |-> ConceptualHint, isHint |-> TRUE, isSolution |-> FALSE]
      [] attemptCount = 1 ->
            [guidance |-> StrongerHint, isHint |-> TRUE, isSolution |-> FALSE]
      [] attemptCount = 2 ->
            [guidance |-> Roadmap, isHint |-> TRUE, isSolution |-> FALSE]
      [] attemptCount >= 3 ->
            [guidance |-> FullSolution, isHint |-> FALSE, isSolution |-> TRUE]

\* C14: the instruction built for a context in learning mode contains
\* exactly one guidance tier, the one the table gives for its attemptCount
\* whatever its currentTopic, with the table's isHint and isSolution; the
\* instruction built for a context in chat mode contains no learning-mode
\* block.
C14_PromptTiering ==
    \A c \in Prompted :
        LET r == requests[c]
            tiers == GuidanceBlocks(r.systemPrompt)
            row == TierRow(r.currentContext.attemptCount)
        IN  IF r.currentContext.isLearningMode
            THEN /\ Len(tiers) = 1
                 /\ tiers[1].guidance = row.guidance
                 /\ tiers[1].isHint = row.isHint
                 /\ tiers[1].isSolution = row.isSolution
            ELSE Len(LearningBlocks(r.systemPrompt)) = 0

\* a prompt at attemptCount 4 carries the full-solution tier
C14_Witness ==
    /\ "s1" \in Prompted
    /\ requests["s1"].currentContext.isLearningMode
    /\ requests["s1"].currentContext.attemptCount = 4
    /\ GuidanceBlocks(requests["s1"].systemPrompt)[1].guidance = FullSolution

\* a prompt at attemptCount 2 on another topic carries the roadmap tier
C14_WitnessRoadmap ==
    /\ "s1" \in Prompted
    /\ requests["s1"].currentContext.currentTopic = Str("latest sorting algorithm")
    /\ requests["s1"].currentContext.attemptCount = 2
    /\ GuidanceBlocks(requests["s1"].systemPrompt)[1].guidance = Roadmap

-----------------------------------------------------------------------------
(* C15 *)

C15_WitnessJump ==
    /\ served["s1"] = {ConceptualHint, FullSolution}
    /\ requests["s1"].body.message = Str("just give me the answer")

-----------------------------------------------------------------------------
(* C16 *)

\* the sessions whose request has been answered
Answered == {c \in Sessions : requests[c].pc = "done"}

\* the status of the response to a request
Status(r) == lastResponse(r).status

\* the request is a POST with a valid message and a valid history
ValidRequest(r) ==
    /\ r.method = "POST"
    /\ IsStr(r.body.message) /\ r.body.message.str # ""
    /\ DOMAIN r.body.conversationHistory = {"array"}

\* generateContent threw, or returned a text that is no JSON
GenerationFailed(r) ==
    \/ "threw" \in DOMAIN r.generation
    \/ /\ "text" \in DOMAIN r.generation
       /\ r.generation.text = Str(NotJSON)

\* a step after the validation failed: the API-key lookup, the generation
\* call or the parsing of its reply
LaterStepFailed(r) == ~r.apiKeyConfigured \/ GenerationFailed(r)

\* the status the claim gives, by precedence
StatusClaim(r) ==
    IF r.method = "OPTIONS" THEN 204
    ELSE IF r.method # "POST" THEN 405
    ELSE IF r.body.message \in {Undefined, Str("")} \/ ~IsStr(r.body.message)
    THEN 400
    ELSE IF DOMAIN r.body.conversationHistory # {"array"} THEN 400
    ELSE IF LaterStepFailed(r) THEN 500
    ELSE 200

\* C16: the response status is 204 for OPTIONS whatever the body, 405 for
\* any other method than POST, 400 for a POST whose message is missing, empty
\* or no string, 400 for a valid message with a history that is no array,
\* 500 with an error detail if a later step fails, and 200 otherwise, in that
\* precedence.
C16_StatusCodes ==
    \A c \in Answered :
        LET r == requests[c]
        IN  /\ Status(r) = StatusClaim(r)
            /\ Status(r) = 500 =>
                    /\ "details" \in DOMAIN lastResponse(r).body
                    /\ lastResponse(r).body.details # ""

\* a preflight with an invalid body is answered 204
C16_Witness ==
    /\ requests["s1"].pc = "done"
    /\ requests["s1"].method = "OPTIONS"
    /\ requests["s1"].body.message = Num(42)
    /\ requests["s1"].body.conversationHistory = Undefined
    /\ Status(requests["s1"]) = 204

\* an invalid message comes before an invalid history
C16_WitnessBadRequest ==
    /\ requests["s1"].pc = "done"
    /\ requests["s1"].method = "POST"
    /\ requests["s1"].body.message = Str("")
    /\ requests["s1"].body.conversationHistory = Str("none")
    /\ lastResponse(requests["s1"]).body.error = "Invalid message"

\* a valid request whose generation call fails is answered 500
C16_WitnessServerError ==
    /\ requests["s1"].pc = "done"
    /\ ValidRequest(requests["s1"])
    /\ requests["s1"].apiKeyConfigured
    /\ GenerationFailed(requests["s1"])
    /\ Status(requests["s1"]) = 500

-----------------------------------------------------------------------------
(* C17 *)

\* the requests past their provider lookups
PastLookups ==
    {c \in Sessions : requests[c].pc \in {"generateContent", "done"}}

\* the weather lookup was made and gave an error marker
WeatherFailed(r) == r.weatherData # Undefined /\ "error" \in DOMAIN r.weatherData

\* the news lookup was made and gave an error marker or no headline
NewsFailed(r) ==
    /\ r.newsData # Undefined
    /\ \/ "error" \in DOMAIN r.newsData
       \/ r.newsData.headlines = <<>>

\* the weather lookup was made and gave the weather
WeatherSucceeded(r) == r.weatherData # Undefined /\ ~WeatherFailed(r)

\* the news lookup was made and gave headlines
NewsSucceeded(r) == r.newsData # Undefined /\ ~NewsFailed(r)

\* the request goes on as without the lookup: the generation service is
\* called once, and the status is that of the generation alone
GoesOn(r) ==
    /\ Len(SelectSeq(r.calls, LAMBDA call : call = "generateContent")) = 1
    /\ r.pc = "done" => Status(r) = IF GenerationFailed(r) THEN 500 ELSE 200

\* C17 as stated: whenever a weather or news lookup of a valid request
\* fails, the real-time block is empty, the generation service is still
\* called and the outcome is that of a request without lookup.
C17_EmptyBlockOnFailure ==
    \A c \in PastLookups :
        LET r == requests[c]
        IN  (WeatherFailed(r) \/ NewsFailed(r)) =>
                (r.realTimeData = NoRealTimeData /\ GoesOn(r))

\* C17, amended: a lookup that fails adds nothing to the real-time block,
\* which is the block of the other lookup of the same request if that one
\* succeeded and is empty otherwise; the generation service is still called
\* and the outcome is that of a request without lookup.
C17_FailedLookupAddsNothing ==
    \A c \in PastLookups :
        LET r == requests[c]
        IN  (WeatherFailed(r) \/ NewsFailed(r)) =>
                /\ r.realTimeData =
                       IF NewsSucceeded(r) THEN newsBlock(r.newsData)
                       ELSE IF WeatherSucceeded(r)
                       THEN weatherBlock(r.weatherData)
                       ELSE NoRealTimeData
                /\ GoesOn(r)

\* both lookups fail and the request is answered 200 without real-time data
C17_Witness ==
    /\ requests["s1"].pc = "done"
    /\ WeatherFailed(requests["s1"])
    /\ NewsFailed(requests["s1"])
    /\ requests["s1"].realTimeData = NoRealTimeData
    /\ Status(requests["s1"]) = 200

\* the weather block stays when the news lookup fails
C17_WitnessWeatherKept ==
    /\ requests["s1"].pc = "done"
    /\ WeatherSucceeded(requests["s1"])
    /\ NewsFailed(requests["s1"])
    /\ requests["s1"].realTimeData # NoRealTimeData

-----------------------------------------------------------------------------
(* C18 *)

\* the message of the error that made a valid request fail, "" when the
\* error carries none
FailureMessage(r) ==
    IF ~r.apiKeyConfigured THEN NoApiKey
    ELSE IF "threw" \in DOMAIN r.generation THEN r.generation.threw
    ELSE JSONparse(r.generation.text.str).threw

\* the number of calls of the generation service
GenerationCalls(r) ==
    Len(SelectSeq(r.calls, LAMBDA call : call = "generateContent"))

\* C18: when the API-key lookup, the generation call or the parsing of its
\* reply fails, the handler answers 500 with the error's message in details;
\* and on every path the generation service is called at most once per
\* request.
C18_GenerationFailure ==
    \A c \in Sessions :
        LET r == requests[c]
        IN  /\ GenerationCalls(r) <= 1
            /\ (r.pc = "done" /\ ValidRequest(r) /\ LaterStepFailed(r)) =>
                    /\ Status(r) = 500
                    /\ FailureMessage(r) # "" =>
                            lastResponse(r).body.details = FailureMessage(r)

\* a generation call that throws is answered 500 with the upstream message,
\* after one call
C18_Witness ==
    /\ requests["s1"].pc = "done"
    /\ requests["s1"].generation = [threw |-> "quota exceeded"]
    /\ Status(requests["s1"]) = 500
    /\ lastResponse(requests["s1"]).body.details = "quota exceeded"
    /\ GenerationCalls(requests["s1"]) = 1

\* a reply that is no JSON is answered 500 with the parser's message
C18_WitnessParse ==
    /\ requests["s1"].pc = "done"
    /\ requests["s1"].generation = [text |-> Str(NotJSON)]
    /\ Status(requests["s1"]) = 500
    /\ lastResponse(requests["s1"]).body.details = JSONparse(NotJSON).threw

-----------------------------------------------------------------------------
(* C19 *)

\* the sessions whose request has been answered 200
AnsweredOK == {c \in Answered : Status(requests[c]) = 200}

\* what analyzeContext returns for the inputs of a request
ContextOf(r) ==
    analyzeContext(r.body.message.str, r.body.conversationHistory.array,
                   fromJSON(r.body.conversationContext))

\* C19: every 200 response carries, as conversationContext, the context
\* analyzeContext computes from the request's message, history and
\* conversationContext, whatever the generation service's reply holds; and
\* it is the context the client replays, so that the contexts of a session
\* are the iteration of analyzeContext.
C19_ContextThreading ==
    /\ \A c \in AnsweredOK :
           /\ fromJSON(lastResponse(requests[c]).body.conversationContext) =
                  ContextOf(requests[c])
           /\ held[c] = lastResponse(requests[c]).body.conversationContext
    /\ \A c \in Sessions :
           requests[c].pc # "idle" => requests[c].body.conversationContext = held[c]
                                     \/ c \in AnsweredOK

\* a reply with a conversationContext of its own does not override the
\* context computed on the second turn of a session
C19_Witness ==
    /\ "s1" \in AnsweredOK
    /\ requests["s1"].generation = [text |-> Str(ReplyWithContext)]
    /\ requests["s1"].body.conversationContext =
           Context(Str("implement merge sort"), 0, TRUE)
    /\ held["s1"] = Context(Str("implement merge sort"), 1, TRUE)

\* a context with an undefined topic is returned without its currentTopic
C19_WitnessUndefined ==
    /\ "s1" \in AnsweredOK
    /\ requests["s1"].currentContext.currentTopic = Undefined
    /\ "currentTopic" \notin DOMAIN held["s1"]

-----------------------------------------------------------------------------
(* C20 *)

\* the requests in flight
InFlight ==
    {c \in Sessions :
        requests[c].pc \in {"fetchWeather", "fetchNews", "generateContent"}}

\* C20: under every interleaving of the requests of two sessions, the
\* context a request computes, and the one its 200 response returns, is what
\* analyzeContext returns for the request's own message, history and
\* conversationContext; and these inputs stay as they were while the request
\* is in flight.
C20_Independence ==
    [][ \A c \in Sessions :
            /\ requests'[c].currentContext # Absent =>
                   requests'[c].currentContext = ContextOf(requests'[c])
            /\ (requests'[c].pc = "done" /\ Status(requests'[c]) = 200) =>
                   fromJSON(lastResponse(requests'[c]).body.conversationContext)
                       = ContextOf(requests'[c])
            /\ c \in InFlight => requests'[c].body = requests[c].body ]_vars

\* a response of one session while a request of the other session, with
\* another context, is in flight
C20_Witness ==
    /\ requests["s1"].pc = "done"
    /\ Status(requests["s1"]) = 200
    /\ requests["s1"].currentContext = Context(Str("implement merge sort"), 2, TRUE)
    /\ "s2" \in InFlight
    /\ requests["s2"].currentContext = ZeroContext

-----------------------------------------------------------------------------
(* C21 *)

\* none of rules 1-6 of the ordered table applies to the last call
NoRuleBeforeAttempt == \A i \in 1..6 : ~RuleCondition(i)

\* the previous topic with attemptCount raised by exactly 1, in learning mode
CountsOneAttempt ==
    context = Context(previousContext.currentTopic,
                      previousContext.attemptCount + 1, TRUE)

\* C21: for every message that contains an attempt/uncertainty marker and
\* matches none of rules 1-6, and every previousContext in learning mode with
\* a topic, analyzeContext returns the previous topic, the previous
\* attemptCount + 1 and learning mode.
C21_GenuineAttempt ==
    (/\ Called
     /\ LastAnalysis.isGenuineAttempt
     /\ NoRuleBeforeAttempt
     /\ inLearningMode(previousContext)
     /\ PreviousTopicExists) => CountsOneAttempt

-----------------------------------------------------------------------------
(* C22 *)

\* none of rules 1-7 of the ordered table applies to the last call
NoRuleBeforeFallback == \A i \in 1..7 : ~RuleCondition(i)

\* none of rules 1-8 of the ordered table applies to the last call
NoRuleBeforeDefault == \A i \in 1..8 : ~RuleCondition(i)

\* C22: for every message that matches none of rules 1-7 and every
\* previousContext in learning mode with a topic, analyzeContext returns the
\* previous topic with attemptCount + 1 in learning mode when the message is
\* longer than 10 characters and the previous context as it is otherwise; with
\* no previousContext and no rule matching it returns {null, 0, false}.
C22_SubstantiveThreshold ==
    /\ (/\ Called
        /\ NoRuleBeforeFallback
        /\ inLearningMode(previousContext)
        /\ PreviousTopicExists) =>
            IF LastAnalysis.length > 10
            THEN CountsOneAttempt
            ELSE context = previousContext
    /\ (/\ Called
        /\ NoRuleBeforeDefault
        /\ previousContext = Absent) => context = ZeroContext

-----------------------------------------------------------------------------
(* C23 *)

\* the message of a turn contains an attempt marker and none of rules 1-6 of
\* the ordered table applies to it, prev being the context before the turn
IsAttemptTurn(turn, prev) ==
    LET a == analysisOf[turn.message]
    IN  /\ a.isGenuineAttempt
        /\ ~a.isRealTimeRequest
        /\ ~(a.isGeneralChat /\ ~a.isNewLearningQuestion)
        /\ ~(a.isNewLearningQuestion /\ ~a.isReturningToPrevious)
        /\ ~(/\ a.isReturningToPrevious
             /\ Len(turn.history) > 0
             /\ Len(topicsOf[turn.history]) > 0)
        /\ ~(a.isFollowUp /\ IsStr(prev.currentTopic))
        /\ ~(a.isAskingForSolution /\ prev.isLearningMode)

\* the instruction built for a context selects the full-solution tier
SelectsFullSolution(c) ==
    LET tiers == GuidanceBlocks(buildSystemPrompt(c))
    IN  Len(tiers) = 1 /\ tiers[1].guidance = FullSolution

\* the turn that opened the topic was followed by three attempt turns
ThreeAttemptsInARow ==
    /\ Len(thread) >= 4
    /\ \A i \in 2..4 : IsAttemptTurn(thread[i], thread[i - 1].context)

\* C23: when the turn that opens a topic (a new learning question or a
\* return to a previous topic) is followed by three turns in a row whose
\* messages contain an attempt marker and match no earlier rule, the context
\* after the third has attemptCount = 3 and selects the full-solution tier,
\* whatever topic the first turn produced.
C23_AttemptsReachSolution ==
    ThreeAttemptsInARow =>
        /\ thread[4].context.attemptCount = 3
        /\ SelectsFullSolution(thread[4].context)

-----------------------------------------------------------------------------
(* C24 *)

\* the requests whose prompt, sent to the generation service, carries a
\* real-time data block
SentWithRealTimeData ==
    {c \in Sessions :
        /\ GenerationCalls(requests[c]) > 0
        /\ requests[c].realTimeData # NoRealTimeData}

\* C24: whenever a real-time data block (weather or news) is attached to the
\* prompt sent to the generation service, the context analyzeContext computed
\* for the request's message is {null, 0, false} and the instruction contains
\* no learning-mode block.
C24_RealTimeOutsideLearningFlow ==
    \A c \in SentWithRealTimeData :
        /\ requests[c].currentContext = ZeroContext
        /\ Len(LearningBlocks(requests[c].systemPrompt)) = 0

-----------------------------------------------------------------------------
(* C25 *)

\* previousContext.attemptCount, 0 when previousContext is absent
PreviousAttemptCount ==
    IF previousContext = Absent THEN 0 ELSE previousContext.attemptCount

\* C25: for every call with a previousContext that is absent or well-formed,
\* the attemptCount returned is 0, the previous attemptCount or the previous
\* attemptCount + 1, or, only when the message contains a solution-request
\* phrase, max(previous attemptCount, 3).
C25_TiersSkippedOnRequestOnly ==
    (Called /\ (previousContext = Absent \/ WellFormed(previousContext))) =>
        \/ context.attemptCount
               \in {0, PreviousAttemptCount, PreviousAttemptCount + 1}
        \/ /\ HasSolutionRequest
           /\ context.attemptCount = Max(PreviousAttemptCount, 3)

\* a solution request that is also an attempt skips from tier 1 to the
\* solution
C25_Witness ==
    /\ message = "not sure, just show me"
    /\ previousContext = Context(Str("merge sort"), 1, TRUE)
    /\ context = Context(Str("merge sort"), 3, TRUE)

\* a long answer without a solution-request phrase moves one tier only
C25_WitnessOneTier ==
    /\ message = "this is hard"
    /\ previousContext = Context(Str("merge sort"), 0, TRUE)
    /\ context = Context(Str("merge sort"), 1, TRUE)

-----------------------------------------------------------------------------
(* C26 *)

\* the rule that decided the last call
LastRule == detected(message, conversationHistory, previousContext)

\* the rules that carry the previous context on
CarryRules ==
    { "Follow-up question", "Direct solution request", "Genuine attempt",
      "Substantive response", "Maintaining previous context" }

\* the last call was decided by a carry rule and returned, in learning mode,
\* the topic of previousContext
CarriedTopic ==
    /\ Called
    /\ LastRule \in CarryRules
    /\ previousContext # Absent
    /\ context.isLearningMode
    /\ context.currentTopic = previousContext.currentTopic

\* C26: a call decided by a carry rule that returns, in learning mode, the
\* topic of previousContext returns an attemptCount >= the previous one; and
\* in a conversation, once the full-solution tier is selected it stays
\* selected until a turn resets the context (real-time override, greeting,
\* new learning question or topic return).
C26_NoRegression ==
    [][ /\ CarriedTopic' =>
            context'.attemptCount >= previousContext'.attemptCount
        /\ (/\ context # Absent
            /\ SelectsFullSolution(context)
            /\ LastRule' \in CarryRules) => SelectsFullSolution(context') ]_vars

\* a hint request at attemptCount 4 leaves the full-solution tier selected
C26_Witness ==
    /\ message = "give me a hint"
    /\ previousContext = Context(Str("implement merge sort"), 4, TRUE)
    /\ context = Context(Str("implement merge sort"), 4, TRUE)
    /\ SelectsFullSolution(context)

-----------------------------------------------------------------------------
(* C27 *)

\* the responses sent for the request of a session
Responses(c) == Len(requests[c].responses)

\* C27: on every path of the handler (preflight, wrong method, invalid
\* message, invalid history, provider failure, generation failure,
\* reply-parse failure, success) exactly one response is sent: none before
\* the handler answers, one once it has, never two.
C27_ExactlyOneResponse ==
    \A c \in Sessions :
        Responses(c) = IF requests[c].pc = "done" THEN 1 ELSE 0

\* both lookups fail, the generation call succeeds and its reply does not
\* parse: one response, the 500 of the catch block
C27_Witness ==
    /\ requests["s1"].pc = "done"
    /\ WeatherFailed(requests["s1"])
    /\ NewsFailed(requests["s1"])
    /\ requests["s1"].generation = [text |-> Str(NotJSON)]
    /\ Responses("s1") = 1
    /\ Status(requests["s1"]) = 500

\* a preflight request: one response, the 204
C27_WitnessPreflight ==
    /\ requests["s1"].pc = "done"
    /\ requests["s1"].method = "OPTIONS"
    /\ Responses("s1") = 1
    /\ Status(requests["s1"]) = 204

-----------------------------------------------------------------------------
(* C28 *)

\* the orders of the calls of a request: analyzeContext, then the lookups,
\* then the generation call, each at most once
CallOrders ==
    {<<>>} \cup
    { <<"analyzeContext">> \o weather \o news \o generation :
        weather \in {<<>>, <<"fetchWeather">>},
        news \in {<<>>, <<"fetchNews">>},
        generation \in {<<>>, <<"generateContent">>} }

\* C28: a request answered with 204, 405 or 400 has called neither
\* analyzeContext nor a provider nor the generation service; and the calls of
\* every request come in the order analyzeContext, provider lookups, one
\* generation call.
C28_ValidationPrecedesWork ==
    \A c \in Sessions :
        /\ requests[c].calls \in CallOrders
        /\ (c \in Answered /\ Status(requests[c]) \in {204, 405, 400}) =>
                requests[c].calls = <<>>

\* a request with a valid message and a history that is no array is
\* answered 400 before any call
C28_Witness ==
    /\ "s1" \in Answered
    /\ Status(requests["s1"]) = 400
    /\ IsStr(requests["s1"].body.message)
    /\ ~invalidMessage(requests["s1"].body.message)
    /\ ~isArray(requests["s1"].body.conversationHistory)
    /\ requests["s1"].calls = <<>>

\* a request that makes every call
C28_WitnessEveryCall ==
    requests["s1"].calls =
        <<"analyzeContext", "fetchWeather", "fetchNews", "generateContent">>

====
